---- MODULE Spec2Model ----
(***************************************************************************)
(* RF configuration tool: the React form (App.jsx), the wizard components  *)
(* (RFConfiguration, StreamingProtocolSelector), and the configuration     *)
(* framing / serial delivery core that the form's requests reach.          *)
(***************************************************************************)
EXTENDS Integers, Sequences, FiniteSets, TLC

(***************************************************************************)
(* JavaScript numbers.  The values of interest reach 6,000,000,001, which  *)
(* does not fit a 32-bit integer, so a number is kept as                   *)
(*     (-1)^neg * (hi * Base + lo)  [+ a non-zero fraction when frac]      *)
(* with 0 <= lo < Base.  nan marks NaN.                                    *)
(***************************************************************************)
Base == 10 ^ 5

Num(h, l) == [nan |-> FALSE, neg |-> FALSE, hi |-> h, lo |-> l, frac |-> FALSE]

NaN == [nan |-> TRUE, neg |-> FALSE, hi |-> 0, lo |-> 0, frac |-> FALSE]

FromInt(n) == Num(n \div Base, n % Base)

IsZero(x) == x.hi = 0 /\ x.lo = 0 /\ ~x.frac

\* x < 0 (minus zero is not below zero)
IsNegative(x) == x.neg /\ ~IsZero(x)

\* integer part of |x| against the integer b >= 0
IntLess(x, b) == x.hi < b.hi \/ (x.hi = b.hi /\ x.lo < b.lo)

IntEq(x, b) == x.hi = b.hi /\ x.lo = b.lo

\* JavaScript x >= b and x <= b for an integer b >= 0; any comparison with NaN is false
NumGE(x, b) == ~x.nan /\ ~IsNegative(x) /\ ~IntLess(x, b)

NumLE(x, b) == ~x.nan /\ (IsNegative(x) \/ IntLess(x, b) \/ (IntEq(x, b) /\ ~x.frac))

NumLT(x, b) == ~x.nan /\ ~NumGE(x, b)

NumGT(x, b) == ~x.nan /\ ~NumLE(x, b)

(***************************************************************************)
(* JavaScript strings are sequences of one-character strings.              *)
(***************************************************************************)
Digits == {"0", "1", "2", "3", "4", "5", "6", "7", "8", "9"}

DigitVal(c) ==
    CASE c = "0" -> 0 [] c = "1" -> 1 [] c = "2" -> 2 [] c = "3" -> 3 [] c = "4" -> 4
      [] c = "5" -> 5 [] c = "6" -> 6 [] c = "7" -> 7 [] c = "8" -> 8 [] c = "9" -> 9

DigitChar(d) == <<"0", "1", "2", "3", "4", "5", "6", "7", "8", "9">>[d + 1]

\* number of leading blanks of s from position i
RECURSIVE BlankRun(_, _)
BlankRun(s, i) == IF i <= Len(s) /\ s[i] = " " THEN 1 + BlankRun(s, i + 1) ELSE 0

\* number of consecutive digits of s from position i
RECURSIVE DigitRun(_, _)
DigitRun(s, i) == IF i <= Len(s) /\ s[i] \in Digits THEN 1 + DigitRun(s, i + 1) ELSE 0

\* the value of the n digits of s from position i, appended to acc
RECURSIVE DigitsValue(_, _, _, _)
DigitsValue(s, i, n, acc) ==
    IF n = 0 THEN acc
    ELSE LET t == acc.lo * 10 + DigitVal(s[i])
         IN DigitsValue(s, i + 1, n - 1, Num(acc.hi * 10 + t \div Base, t % Base))

\* some digit of the n digits of s from position i is not "0"
RECURSIVE AnyNonZero(_, _, _)
AnyNonZero(s, i, n) == n > 0 /\ (s[i] # "0" \/ AnyNonZero(s, i + 1, n - 1))

(***************************************************************************)
(* parseFloat on a string: blanks, a sign, digits, "." digits; it stops at *)
(* the first character that cannot continue the number, and NaN when no    *)
(* digit was read.  (Exponents and "Infinity" are not among the inputs.)   *)
(***************************************************************************)
ParseFloatStr(s) ==
    LET b  == 1 + BlankRun(s, 1)
        sg == b <= Len(s) /\ s[b] \in {"-", "+"}
        i  == IF sg THEN b + 1 ELSE b
        n  == DigitRun(s, i)
        dot == i + n <= Len(s) /\ s[i + n] = "."
        m  == IF dot THEN DigitRun(s, i + n + 1) ELSE 0
        v  == DigitsValue(s, i, n, Num(0, 0))
    IN IF n = 0 /\ m = 0 THEN NaN
       ELSE [nan |-> FALSE, neg |-> sg /\ s[b] = "-", hi |-> v.hi, lo |-> v.lo,
             frac |-> AnyNonZero(s, i + n + 1, m)]

\* decimal digits of the natural number n
RECURSIVE NatToStr(_)
NatToStr(n) == IF n < 10 THEN <<DigitChar(n)>> ELSE NatToStr(n \div 10) \o <<DigitChar(n % 10)>>

\* n as exactly w digits, zero padded
RECURSIVE PadStr(_, _)
PadStr(n, w) == IF w = 0 THEN <<>> ELSE PadStr(n \div 10, w - 1) \o <<DigitChar(n % 10)>>

\* String(x) for an integer-valued number
NumToString(x) ==
    (IF IsNegative(x) THEN <<"-">> ELSE <<>>) \o
    (IF x.hi = 0 THEN NatToStr(x.lo) ELSE NatToStr(x.hi) \o PadStr(x.lo, 5))

(***************************************************************************)
(* A JavaScript value held by a form field: a number or a string.          *)
(***************************************************************************)
JsNum(x) == [t |-> "number", n |-> x, s |-> <<>>]

JsStr(str) == [t |-> "string", n |-> NaN, s |-> str]

\* parseFloat(value): the argument is first converted to a string
ParseFloat(v) == ParseFloatStr(IF v.t = "number" THEN NumToString(v.n) ELSE v.s)

\* !value
Falsy(v) == IF v.t = "number" THEN v.n.nan \/ IsZero(v.n) ELSE v.s = <<>>

(***************************************************************************)
(* Validation ranges.  6000000000 is Num(60000, 0) = 60000 * 10^5.         *)
(***************************************************************************)
NumericFields == <<"fc", "fs", "rfg", "ifg", "bbg">>

NumericFieldSet == {NumericFields[i] : i \in 1..Len(NumericFields)}

\* App.jsx: const ranges
ranges ==
    [fc  |-> [min |-> FromInt(1000000), max |-> Num(60000, 0), label |-> "1 MHz - 6 GHz"],
     fs  |-> [min |-> FromInt(1000000), max |-> FromInt(20000000), label |-> "1 MHz - 20 MHz"],
     rfg |-> [min |-> FromInt(0), max |-> FromInt(47), label |-> "0-47 dB"],
     ifg |-> [min |-> FromInt(0), max |-> FromInt(40), label |-> "0-40 dB"],
     bbg |-> [min |-> FromInt(0), max |-> FromInt(62), label |-> "0-62 dB"]]

\* RFConfiguration: const validationRules
validationRules ==
    [fc  |-> [min |-> FromInt(1000000), max |-> Num(60000, 0), unit |-> "Hz",
              label |-> "Carrier Frequency", hint |-> "Range: 1 MHz - 6 GHz"],
     fs  |-> [min |-> FromInt(1000000), max |-> FromInt(20000000), unit |-> "Hz",
              label |-> "Sampling Frequency", hint |-> "Range: 1 MHz - 20 MHz"],
     rfg |-> [min |-> FromInt(0), max |-> FromInt(47), unit |-> "dB",
              label |-> "RF Gain", hint |-> "Range: 0 - 47 dB"],
     ifg |-> [min |-> FromInt(0), max |-> FromInt(40), unit |-> "dB",
              label |-> "IF Gain", hint |-> "Range: 0 - 40 dB"],
     bbg |-> [min |-> FromInt(0), max |-> FromInt(62), unit |-> "dB",
              label |-> "Baseband Gain", hint |-> "Range: 0 - 62 dB"]]

\* App.validateField(field, value): true when the value is acceptable
validateFieldLoose(field, value) ==
    IF field \notin DOMAIN ranges THEN TRUE
    ELSE LET range == ranges[field]
             numValue == ParseFloat(value)
         IN IF numValue.nan THEN FALSE
            ELSE NumGE(numValue, range.min) /\ NumLT(numValue, range.max)

validateField(field, value) ==
    IF field \notin DOMAIN ranges THEN TRUE
    ELSE LET range == ranges[field]
             numValue == ParseFloat(value)
         IN IF numValue.nan THEN FALSE
            ELSE NumGE(numValue, range.min) /\ NumLE(numValue, range.max)

\* RFConfiguration.formatValue(value, unit): the quotient is kept unevaluated,
\* `${value / 1e9} GHz` is [value, per, unit]
formatValue(value, unit) ==
    IF unit = "Hz"
    THEN IF NumGE(value, Num(10000, 0)) THEN [value |-> value, per |-> "1e9", unit |-> "GHz"]
         ELSE IF NumGE(value, FromInt(1000000)) THEN [value |-> value, per |-> "1e6", unit |-> "MHz"]
         ELSE IF NumGE(value, FromInt(1000)) THEN [value |-> value, per |-> "1e3", unit |-> "kHz"]
         ELSE [value |-> value, per |-> "1", unit |-> "Hz"]
    ELSE [value |-> value, per |-> "1", unit |-> unit]

NoLimit == [value |-> NaN, per |-> "", unit |-> ""]

\* the null an error-returning validation answers for an acceptable value
NoError == [msg |-> "null", limit |-> NoLimit]

\* RFConfiguration.validateField(name, value): an error message, or null
rfValidateField(name, value) ==
    IF Falsy(value) THEN [msg |-> "This field is required", limit |-> NoLimit]
    ELSE LET numValue == ParseFloat(value)
         IN IF numValue.nan THEN [msg |-> "Must be a valid number", limit |-> NoLimit]
            ELSE IF name \in DOMAIN validationRules
                    /\ NumLT(numValue, validationRules[name].min)
                 THEN [msg |-> "Value too low. Minimum: ",
                       limit |-> formatValue(validationRules[name].min, validationRules[name].unit)]
            ELSE IF name \in DOMAIN validationRules
                    /\ NumGT(numValue, validationRules[name].max)
                 THEN [msg |-> "Value too high. Maximum: ",
                       limit |-> formatValue(validationRules[name].max, validationRules[name].unit)]
            ELSE NoError

(***************************************************************************)
(* Bounds of the model.                                                    *)
(***************************************************************************)
\* edits (change events) a user makes in one run
MaxEdits == 2

\* requests in flight at one time
MaxInFlight == 2

\* events (changes, blurs, clicks) on the RFConfiguration form in one run
MaxRfEvents == 6

(***************************************************************************)
(* State.                                                                  *)
(***************************************************************************)
VARIABLES
    mounted,        \* the component on screen (the specification explored)
    config,         \* App: useState config
    status,         \* App: useState status
    isSubmitting,   \* App: useState isSubmitting
    errors,         \* App: useState errors (keys are the fields in error)
    ops,            \* the requests in flight, in the order they were started
    edits,          \* change events so far
    formData,       \* RFConfiguration: useState formData
    rfErrors,       \* RFConfiguration: useState errors
    touched,        \* RFConfiguration: useState touched
    onSubmitArg,    \* RFConfiguration: the argument of the last onSubmit call
    vField,         \* validation alone: the field validated
    vValue,         \* validation alone: the value it holds
    vErrors,        \* validation alone: the errors App.validateAll records
    vRfErrors,      \* validation alone: the errors RFConfiguration.handleSubmit records
    owner,          \* serial ports: whether a session holds each port
    device,         \* how the device behind the ports behaves
    record,         \* frame codec: the ConfigurationRecord at hand
    frame,          \* frame codec: what encode made of it, as it is now
    damage,         \* frame codec: what happened to the frame since
    decoded,        \* frame codec: what decode made of the frame
    nextResult,     \* responses watched: how the next request to end will end
    overtaken,      \* responses watched: how many of the oldest requests in flight
                    \* have seen the response of a request started after them
    selectedProtocol,   \* StreamingProtocolSelector: the prop of that name
    selectedFile,       \* StreamingProtocolSelector: useState selectedFile
    onSelectCalls,      \* StreamingProtocolSelector: the calls of the prop onSelect so far
    lastEvent           \* StreamingProtocolSelector: the card clicked last, or "input"

appVars == <<config, status, isSubmitting, errors, ops>>

rfVars == <<formData, rfErrors, touched, onSubmitArg>>

valVars == <<vField, vValue, vErrors, vRfErrors>>

linkVars == <<owner, device>>

codecVars == <<record, frame, damage, decoded>>

watchVars == <<nextResult, overtaken>>

selVars == <<selectedProtocol, selectedFile, onSelectCalls, lastEvent>>

vars == <<mounted, edits, appVars, rfVars, valVars, linkVars, codecVars, watchVars, selVars>>

\* what the handlers of App, and those of RFConfiguration, cannot touch
outsideApp == <<rfVars, valVars, linkVars, codecVars, watchVars, selVars>>

outsideRF == <<appVars, valVars, linkVars, codecVars, watchVars, selVars>>

\* an object without keys
EmptyObject == [k \in {} |-> ""]

\* obj without the key k (delete obj[k])
DeleteKey(obj, k) == [x \in (DOMAIN obj) \ {k} |-> obj[x]]

\* { ...obj, [k]: v }
SetKey(obj, k, v) == [x \in (DOMAIN obj) \cup {k} |-> IF x = k THEN v ELSE obj[x]]

Undefined == "undefined"

\* config.port, undefined when the object has no such key
PortOf(cfg) == IF "port" \in DOMAIN cfg THEN cfg.port ELSE Undefined

\* !config.port
NoPort(cfg) == PortOf(cfg) \in {Undefined, ""}

\* useState({...}) of App: the initial config
InitialConfig ==
    [deviceMode |-> "receive", streamingProtocol |-> "uart", modulation |-> "QPSK",
     fc |-> JsNum(FromInt(915000000)), fs |-> JsNum(FromInt(2000000)),
     rfg |-> JsNum(FromInt(14)), ifg |-> JsNum(FromInt(20)), bbg |-> JsNum(FromInt(30)),
     filePath |-> "", port |-> ""]

\* the object Reset to Defaults passes to setConfig: it has no port key
ResetConfig == DeleteKey(InitialConfig, "port")

NoStatus == [type |-> "null", message |-> ""]

Status(t, m) == [type |-> t, message |-> m]

\* App.validateAll: the newErrors object it builds from config
validateAllNoGains(cfg) ==
    LET bad == {f \in {"fc", "fs"} : ~validateField(f, cfg[f])}
    IN [f \in bad |-> ranges[f].label]

validateAll(cfg) ==
    LET bad == {f \in NumericFieldSet : ~validateField(f, cfg[f])}
    IN [f \in bad |-> ranges[f].label]

(***************************************************************************)
(* What the inputs of the form can deliver.                                *)
(***************************************************************************)
\* a valid floating-point number in the sense of <input type="number">:
\* "-"? digits ("." digits)?  or  "-"? "." digits
IsValidFloat(s) ==
    LET i == IF Len(s) >= 1 /\ s[1] = "-" THEN 2 ELSE 1
        n == DigitRun(s, i)
        dot == i + n <= Len(s) /\ s[i + n] = "."
        m == IF dot THEN DigitRun(s, i + n + 1) ELSE 0
    IN IF dot THEN m > 0 /\ i + n + m = Len(s)
       ELSE n > 0 /\ i + n - 1 = Len(s)

\* e.target.value of <input type="number"> for the text typed: "" unless a valid number
NumberInputValue(typed) == IF IsValidFloat(typed) THEN typed ELSE <<>>

\* x + 1 and x - 1 of an integer x >= 0
Succ(x) == IF x.lo + 1 = Base THEN Num(x.hi + 1, 0) ELSE Num(x.hi, x.lo + 1)

Pred(x) ==
    IF IsZero(x) THEN [nan |-> FALSE, neg |-> TRUE, hi |-> 0, lo |-> 1, frac |-> FALSE]
    ELSE IF x.lo = 0 THEN Num(x.hi - 1, Base - 1) ELSE Num(x.hi, x.lo - 1)

\* texts typed into the input of a numeric field: the maximum, one above it,
\* and a text that is no number
TypedTexts(f) ==
    {NumToString(ranges[f].max), NumToString(Succ(ranges[f].max)), <<"4", "a">>}

DeviceModes == {"receive", "transmit"}

Protocols == {"uart", "i2c", "spi", "file"}

Modulations == {"BPSK", "QPSK", "FSK"}

PortNames == {"COM3"}

\* the File objects a file chooser can deliver; none when the dialog is cancelled
NoFile == [name |-> "", path |-> ""]

Files == {NoFile, [name |-> "data.bin", path |-> ""]}

(***************************************************************************)
(* App: the handlers.                                                      *)
(***************************************************************************)
\* a request in flight; sid, sess and outcome are the server's side of it: the
\* number and the state of the serial session it runs, and the outcome of its
\* probe or send
Request(h, u, b) ==
    [handler |-> h, url |-> u, body |-> b, sid |-> 0, sess |-> "Closed", outcome |-> "none"]

\* seq without its i-th element
RemoveAt(seq, i) == SubSeq(seq, 1, i - 1) \o SubSeq(seq, i + 1, Len(seq))

\* updateConfig(field, value)
updateConfigClearsAll(field, value) ==
    /\ config' = SetKey(config, field, value)
    /\ errors' = EmptyObject
    /\ UNCHANGED <<status, isSubmitting, ops>>

updateConfig(field, value) ==
    /\ config' = SetKey(config, field, value)
    /\ errors' = IF field \in DOMAIN errors THEN DeleteKey(errors, field) ELSE errors
    /\ UNCHANGED <<status, isSubmitting, ops>>

\* a change event of a controlled input: the value differs from the one shown
Changes(field, value) ==
    /\ mounted = "App"
    /\ edits < MaxEdits
    /\ (IF field \in DOMAIN config THEN config[field] # value ELSE TRUE)
    /\ edits' = edits + 1
    /\ UNCHANGED <<mounted, outsideApp>>

ChangeDeviceMode ==
    \E v \in DeviceModes : Changes("deviceMode", v) /\ updateConfig("deviceMode", v)

ChangeProtocol ==
    \E v \in Protocols : Changes("streamingProtocol", v) /\ updateConfig("streamingProtocol", v)

ChangeModulation ==
    \E v \in Modulations : Changes("modulation", v) /\ updateConfig("modulation", v)

ChangeNumeric ==
    \E f \in NumericFieldSet : \E typed \in TypedTexts(f) :
        LET v == JsStr(NumberInputValue(typed))
        IN Changes(f, v) /\ updateConfig(f, v)

ChangePort ==
    \E v \in PortNames \cup {""} : Changes("port", v) /\ updateConfig("port", v)

\* handleFileSelect; the file input is rendered only for the File protocol
handleFileSelect ==
    /\ mounted = "App"
    /\ config.streamingProtocol = "file"
    /\ \E file \in Files :
          IF file # NoFile
          THEN LET v == IF file.path # "" THEN file.path ELSE file.name
               IN Changes("filePath", v) /\ updateConfig("filePath", v)
          ELSE UNCHANGED vars

\* handleSubmit up to its first await; Save is disabled while isSubmitting or hasErrors
handleSubmitClamping ==
    /\ mounted = "App"
    /\ ~isSubmitting
    /\ DOMAIN errors = {}
    /\ LET newErrors == validateAll(config)
       IN /\ errors' = newErrors
          /\ IF DOMAIN newErrors # {}
             THEN /\ status' = Status("error", "Please fix validation errors before saving")
                  /\ config' = [f \in DOMAIN config |->
                                  IF f \in DOMAIN newErrors THEN InitialConfig[f] ELSE config[f]]
                  /\ UNCHANGED <<isSubmitting, ops>>
             ELSE /\ Len(ops) < MaxInFlight
                  /\ isSubmitting' = TRUE
                  /\ status' = NoStatus
                  /\ ops' = Append(ops, Request("handleSubmit", "/api/config", config))
                  /\ UNCHANGED config
    /\ UNCHANGED <<mounted, edits, outsideApp>>

handleSubmit ==
    /\ mounted = "App"
    /\ ~isSubmitting
    /\ DOMAIN errors = {}
    /\ LET newErrors == validateAll(config)
       IN /\ errors' = newErrors
          /\ IF DOMAIN newErrors # {}
             THEN /\ status' = Status("error", "Please fix validation errors before saving")
                  /\ UNCHANGED <<isSubmitting, ops>>
             ELSE /\ Len(ops) < MaxInFlight
                  /\ isSubmitting' = TRUE
                  /\ status' = NoStatus
                  /\ ops' = Append(ops, Request("handleSubmit", "/api/config", config))
    /\ UNCHANGED <<mounted, edits, config, outsideApp>>

\* handleCheckConnection up to its first await, or to its return without a port
handleCheckConnectionSends ==
    /\ mounted = "App"
    /\ IF NoPort(config)
       THEN /\ status' = Status("error", "Please enter a Serial Port first")
            /\ UNCHANGED ops
       ELSE /\ Len(ops) < MaxInFlight
            /\ status' = Status("info", "Checking connection...")
            /\ ops' = Append(ops, Request("handleCheckConnection", "/api/send",
                                          [port |-> config.port]))
    /\ UNCHANGED <<mounted, edits, config, isSubmitting, errors, outsideApp>>

handleCheckConnection ==
    /\ mounted = "App"
    /\ IF NoPort(config)
       THEN /\ status' = Status("error", "Please enter a Serial Port first")
            /\ UNCHANGED ops
       ELSE /\ Len(ops) < MaxInFlight
            /\ status' = Status("info", "Checking connection...")
            /\ ops' = Append(ops, Request("handleCheckConnection", "/api/connection",
                                          [port |-> config.port]))
    /\ UNCHANGED <<mounted, edits, config, isSubmitting, errors, outsideApp>>

\* handleSendConfig up to its first await, or to its return without a port
handleSendConfigAnyPort ==
    /\ mounted = "App"
    /\ Len(ops) < MaxInFlight
    /\ status' = Status("info", "Sending configuration...")
    /\ ops' = Append(ops, Request("handleSendConfig", "/api/send", [port |-> PortOf(config)]))
    /\ UNCHANGED <<mounted, edits, config, isSubmitting, errors, outsideApp>>

handleSendConfig ==
    /\ mounted = "App"
    /\ IF NoPort(config)
       THEN /\ status' = Status("error", "Please enter a Serial Port")
            /\ UNCHANGED ops
       ELSE /\ Len(ops) < MaxInFlight
            /\ status' = Status("info", "Sending configuration...")
            /\ ops' = Append(ops, Request("handleSendConfig", "/api/send",
                                          [port |-> config.port]))
    /\ UNCHANGED <<mounted, edits, config, isSubmitting, errors, outsideApp>>

\* the Check Connection and Send to Device buttons, disabled={!config.port}
CheckConnection == ~NoPort(config) /\ handleCheckConnection

SendToDevice == ~NoPort(config) /\ handleSendConfig

\* onBlur={() => handleBlur(f)} of a numeric input
BlurNumericValidating ==
    \E f \in NumericFieldSet :
        /\ mounted = "App"
        /\ edits < MaxEdits
        /\ edits' = edits + 1
        /\ errors' = IF validateField(f, config[f]) THEN errors
                     ELSE SetKey(errors, f, ranges[f].label)
        /\ UNCHANGED <<mounted, config, status, isSubmitting, ops, outsideApp>>

\* App defines no handleBlur: the call throws a ReferenceError inside the event
\* handler, which sets no state
BlurNumeric ==
    \E f \in NumericFieldSet :
        /\ mounted = "App"
        /\ edits < MaxEdits
        /\ edits' = edits + 1
        /\ UNCHANGED <<mounted, config, status, isSubmitting, errors, ops, outsideApp>>

\* Reset to Defaults
ResetToDefaultsKeepsPort ==
    /\ mounted = "App"
    /\ config' = IF "port" \in DOMAIN config
                 THEN SetKey(ResetConfig, "port", config.port)
                 ELSE ResetConfig
    /\ errors' = EmptyObject
    /\ UNCHANGED <<mounted, edits, status, isSubmitting, ops, outsideApp>>

ResetToDefaults ==
    /\ mounted = "App"
    /\ config' = ResetConfig
    /\ errors' = EmptyObject
    /\ UNCHANGED <<mounted, edits, status, isSubmitting, ops, outsideApp>>

(***************************************************************************)
(* How a request ends: fetch rejects, or a response arrives whose ok flag  *)
(* is set or not and whose body parses as JSON or not.                     *)
(***************************************************************************)
Results == {"ok", "okBadJson", "notOk", "notOkBadJson", "rejected"}

\* the status a handler sets once its request has ended with r; data is the
\* message of the response body (data.message, or data.error when there is none)
FinalStatusAlwaysSuccess(handler, r, data) == Status("success", data)

FinalStatus(handler, r, data) ==
    IF handler = "handleSubmit"
    THEN CASE r = "ok" -> Status("success", "Configuration saved successfully! Files: ")
           [] r = "notOk" -> Status("error", data)
           [] OTHER -> Status("error", "Network error: ")
    ELSE CASE r = "ok" -> Status("success", data)
           [] r = "notOk" -> Status("error", data)
           [] OTHER -> Status("error", "Network error: ")

\* finally { setIsSubmitting(false) } of handleSubmit; the other handlers have none
FinallyNothing(handler) == UNCHANGED isSubmitting

Finally(handler) ==
    isSubmitting' = IF handler = "handleSubmit" THEN FALSE ELSE isSubmitting

\* the rest of the handler of request i, from its await to its end
SettleRetrying(i, r, data) ==
    /\ status' = FinalStatus(ops[i].handler, r, data)
    /\ Finally(ops[i].handler)
    /\ ops' = IF r = "ok" THEN RemoveAt(ops, i) ELSE Append(RemoveAt(ops, i), ops[i])
    /\ UNCHANGED <<mounted, edits, config, errors, rfVars, valVars, codecVars, selVars>>

Settle(i, r, data) ==
    /\ status' = FinalStatus(ops[i].handler, r, data)
    /\ Finally(ops[i].handler)
    /\ ops' = RemoveAt(ops, i)
    /\ UNCHANGED <<mounted, edits, config, errors, rfVars, valVars, codecVars, selVars>>

\* the message of a response body whose text the form does not interpret
SomeMessage == "a message"

\* the request ends in one of the ways a server and a network allow
Response ==
    /\ mounted = "App"
    /\ \E i \in 1..Len(ops) : \E r \in Results : Settle(i, r, SomeMessage)
    /\ UNCHANGED <<linkVars, watchVars>>

\* the same, watched: the request at place i ends the way nextResult says, the
\* requests started before it have seen a later response, and the next
\* request to end will end in any of the ways
Answered ==
    /\ mounted = "App"
    /\ \E i \in 1..Len(ops) :
          /\ Settle(i, nextResult, SomeMessage)
          /\ overtaken' = IF i <= overtaken THEN overtaken - 1 ELSE i - 1
    /\ nextResult' \in Results
    /\ UNCHANGED linkVars

InitApp ==
    /\ config = InitialConfig
    /\ status = NoStatus
    /\ isSubmitting = FALSE
    /\ errors = EmptyObject
    /\ ops = <<>>

(***************************************************************************)
(* StreamingProtocolSelector: the wizard's protocol cards.  Its parent is  *)
(* not part of the sources: it is taken to show the protocol of the last   *)
(* onSelect call as selectedProtocol.                                      *)
(***************************************************************************)
\* clicks on the cards and changes of the file input in one run
MaxClicks == 4

\* the prop onSelect called with (protocol, file); file is NoFile when absent
onSelect(protocol, file) ==
    /\ onSelectCalls' = Append(onSelectCalls, [protocol |-> protocol, file |-> file])
    /\ selectedProtocol' = protocol

\* an event of the selector: a click on a card, or a change of the file input
SelectorEvent(e) ==
    /\ mounted = "StreamingProtocolSelector"
    /\ edits < MaxClicks
    /\ edits' = edits + 1
    /\ lastEvent' = e
    /\ UNCHANGED <<mounted, appVars, rfVars, valVars, linkVars, codecVars, watchVars>>

\* handleProtocolSelect(protocol.id), the onClick of each card
handleProtocolSelectAny ==
    \E protocolId \in Protocols :
        /\ SelectorEvent(protocolId)
        /\ onSelect(protocolId, NoFile)
        /\ UNCHANGED selectedFile

handleProtocolSelect ==
    \E protocolId \in Protocols :
        /\ SelectorEvent(protocolId)
        /\ IF protocolId = "file"
           THEN UNCHANGED <<selectedProtocol, selectedFile, onSelectCalls>>
           ELSE onSelect(protocolId, NoFile) /\ UNCHANGED selectedFile

\* {selectedProtocol === 'file' && (<div className="file-browser"> ... )}
FileInputRendered == selectedProtocol = "file"

\* handleFileChange, the onChange of the file input
handleFileChange ==
    /\ FileInputRendered
    /\ \E file \in Files :
          /\ SelectorEvent("input")
          /\ IF file # NoFile
             THEN selectedFile' = file /\ onSelect("file", file)
             ELSE UNCHANGED <<selectedProtocol, selectedFile, onSelectCalls>>

(***************************************************************************)
(* RFConfiguration: the wizard's RF parameter form.                        *)
(***************************************************************************)
\* texts typed into one of its text inputs: the maximum followed by a letter,
\* and one above the maximum
RfTypedTexts(f) ==
    {NumToString(validationRules[f].max) \o <<"a">>, NumToString(Succ(validationRules[f].max))}

\* an event of the form: a change, a blur or a click
RfEvent ==
    /\ mounted = "RFConfiguration"
    /\ edits < MaxRfEvents
    /\ edits' = edits + 1

\* handleChange
rfHandleChange ==
    /\ RfEvent
    /\ \E name \in NumericFieldSet : \E typed \in RfTypedTexts(name) :
          LET value == JsStr(typed)
          IN /\ formData[name] # value
             /\ formData' = SetKey(formData, name, value)
             /\ rfErrors' = IF name \in DOMAIN touched
                            THEN SetKey(rfErrors, name, rfValidateField(name, value))
                            ELSE rfErrors
    /\ UNCHANGED <<mounted, touched, onSubmitArg, outsideRF>>

\* onClick of a modulation card
rfSelectModulation ==
    /\ RfEvent
    /\ \E mod \in Modulations : formData' = SetKey(formData, "modulation", mod)
    /\ UNCHANGED <<mounted, rfErrors, touched, onSubmitArg, outsideRF>>

\* handleBlur
rfHandleBlur ==
    /\ RfEvent
    /\ \E name \in NumericFieldSet :
          /\ touched' = SetKey(touched, name, TRUE)
          /\ rfErrors' = SetKey(rfErrors, name, rfValidateField(name, formData[name]))
    /\ UNCHANGED <<mounted, formData, onSubmitArg, outsideRF>>

\* RFConfiguration.handleSubmit: the newErrors object it builds
rfNewErrors(data) ==
    LET bad == {f \in NumericFieldSet : rfValidateField(f, data[f]) # NoError}
    IN [f \in bad |-> rfValidateField(f, data[f])]

\* RFConfiguration.handleSubmit
rfHandleSubmit ==
    /\ mounted = "RFConfiguration"
    /\ LET newErrors == rfNewErrors(formData)
       IN IF DOMAIN newErrors # {}
          THEN /\ rfErrors' = newErrors
               /\ touched' = [f \in NumericFieldSet |-> TRUE]
               /\ UNCHANGED onSubmitArg
          ELSE /\ onSubmitArg' =
                     [modulation |-> formData.modulation,
                      fc |-> JsNum(ParseFloat(formData.fc)),
                      fs |-> JsNum(ParseFloat(formData.fs)),
                      rfg |-> JsNum(ParseFloat(formData.rfg)),
                      ifg |-> JsNum(ParseFloat(formData.ifg)),
                      bbg |-> JsNum(ParseFloat(formData.bbg))]
               /\ UNCHANGED <<rfErrors, touched>>
    /\ UNCHANGED <<mounted, edits, formData, outsideRF>>

InitRF ==
    /\ formData = [modulation |-> "QPSK", fc |-> JsStr(<<>>), fs |-> JsStr(<<>>),
                   rfg |-> JsStr(<<>>), ifg |-> JsStr(<<>>), bbg |-> JsStr(<<>>)]
    /\ rfErrors = EmptyObject
    /\ touched = EmptyObject
    /\ onSubmitArg = EmptyObject

(***************************************************************************)
(* The forms: a component on screen, and every handler a user or a         *)
(* response can start on it.                                               *)
(***************************************************************************)
\* validation alone: nothing validated
Pending == [pending |-> TRUE]

IdleValidation ==
    /\ vField = "none"
    /\ vValue = JsStr(<<>>)
    /\ vErrors = Pending
    /\ vRfErrors = Pending

\* the serial link at rest
IdleLink ==
    /\ owner = [p \in PortNames |-> FALSE]
    /\ device = "replies"

\* no response is watched
Unwatched ==
    /\ nextResult = "none"
    /\ overtaken = 0

\* the protocol selector is not on screen
IdleSelector ==
    /\ selectedProtocol = "none"
    /\ selectedFile = NoFile
    /\ onSelectCalls = <<>>
    /\ lastEvent = "none"

\* no result yet, and a frame as encode made it
Nothing == [kind |-> "none"]

Intact == [kind |-> "intact", at |-> 0]

\* the frame codec at rest
IdleCodec ==
    /\ record = Nothing
    /\ frame = Nothing
    /\ damage = Intact
    /\ decoded = Nothing

InitForms ==
    /\ edits = 0
    /\ InitApp
    /\ InitRF
    /\ IdleValidation
    /\ IdleLink
    /\ IdleCodec
    /\ Unwatched
    /\ IdleSelector

NextApp ==
    \/ ChangeDeviceMode
    \/ ChangeProtocol
    \/ ChangeModulation
    \/ ChangeNumeric
    \/ ChangePort
    \/ handleFileSelect
    \/ handleSubmit
    \/ CheckConnection
    \/ SendToDevice
    \/ ResetToDefaults
    \/ Response

NextRF ==
    \/ rfHandleChange
    \/ rfSelectModulation
    \/ rfHandleBlur
    \/ rfHandleSubmit

Init == mounted \in {"App", "RFConfiguration"} /\ InitForms

Next == NextApp \/ NextRF

\* either form
Spec == Init /\ [][Next]_vars

\* the App form alone
InitAppForm == mounted = "App" /\ InitForms

SpecApp == InitAppForm /\ [][NextApp]_vars

\* the App form with its responses watched: the port, and the three operations
InitWatched ==
    /\ mounted = "App"
    /\ edits = 0
    /\ InitApp
    /\ InitRF
    /\ IdleValidation
    /\ IdleLink
    /\ IdleCodec
    /\ nextResult \in Results
    /\ overtaken = 0
    /\ IdleSelector

NextWatched ==
    \/ ChangePort
    \/ handleSubmit
    \/ CheckConnection
    \/ SendToDevice
    \/ Answered

SpecWatched == InitWatched /\ [][NextWatched]_vars

\* the handlers of the two buttons called whatever the port entry holds
NextHandlers ==
    \/ ChangePort
    \/ ChangeNumeric
    \/ handleSubmit
    \/ handleCheckConnection
    \/ handleSendConfig
    \/ ResetToDefaults
    \/ Response

SpecHandlers == InitAppForm /\ [][NextHandlers]_vars

\* the protocol selector alone, mounted with any protocol selected or none
InitSelector ==
    /\ mounted = "StreamingProtocolSelector"
    /\ edits = 0
    /\ InitApp
    /\ InitRF
    /\ IdleValidation
    /\ IdleLink
    /\ IdleCodec
    /\ Unwatched
    /\ selectedProtocol \in Protocols \cup {"none"}
    /\ selectedFile = NoFile
    /\ onSelectCalls = <<>>
    /\ lastEvent = "none"

NextSelector == handleProtocolSelect \/ handleFileChange

SpecSelector == InitSelector /\ [][NextSelector]_vars

\* the App form after fc, fs and rfg have been typed into: each holds its
\* initial number or the text of one above its maximum
TypedConfigs ==
    {[InitialConfig EXCEPT !.fc = a, !.fs = b, !.rfg = c] :
        a \in {InitialConfig.fc, JsStr(NumToString(Succ(ranges.fc.max)))},
        b \in {InitialConfig.fs, JsStr(NumToString(Succ(ranges.fs.max)))},
        c \in {InitialConfig.rfg, JsStr(NumToString(Succ(ranges.rfg.max)))}}

InitTyped ==
    /\ mounted = "App"
    /\ edits = 0
    /\ config \in TypedConfigs
    /\ status = NoStatus
    /\ isSubmitting = FALSE
    /\ errors = EmptyObject
    /\ ops = <<>>
    /\ InitRF
    /\ IdleValidation
    /\ IdleLink
    /\ IdleCodec
    /\ Unwatched
    /\ IdleSelector

\* edits, file selections, save attempts and resets
NextTyped ==
    \/ ChangeProtocol
    \/ ChangeNumeric
    \/ handleFileSelect
    \/ handleSubmit
    \/ ResetToDefaults
    \/ Response

SpecTyped == InitTyped /\ [][NextTyped]_vars

\* the same, with the numeric inputs also left
NextBlurred == NextTyped \/ BlurNumeric

SpecBlurred == InitTyped /\ [][NextBlurred]_vars

\* the RFConfiguration form alone
InitRFForm == mounted = "RFConfiguration" /\ InitForms

SpecRF == InitRFForm /\ [][NextRF]_vars

SaveRequests == {i \in 1..Len(ops) : ops[i].handler = "handleSubmit"}

SendRequests == {i \in 1..Len(ops) : ops[i].handler = "handleSendConfig"}

(***************************************************************************)
(* The Serial Transport Manager behind /api/connection and /api/send: one  *)
(* probe or send per request, each with its own serial session.  A session *)
(* is Closed, Opening, Open, Sending, AwaitingAck or Closing; owner[p]     *)
(* tells whether a session holds port p.                                   *)
(***************************************************************************)
Devices == {"replies", "silent", "faulty"}

Replies == {"Acknowledged", "DeviceRejected", "ChecksumMismatchReportedByDevice"}

\* the places of the requests in flight, and the numbers of their sessions
Places == 1..MaxInFlight

Sessions == 1..MaxInFlight

\* the smallest session number that no request in flight bears
FreeSid ==
    CHOOSE k \in Sessions :
        /\ \A i \in 1..Len(ops) : ops[i].sid # k
        /\ \A j \in 1..k - 1 : \E i \in 1..Len(ops) : ops[i].sid = j

\* the place of the request whose session is numbered k, 0 when there is none
Slot(k) ==
    IF \E i \in 1..Len(ops) : ops[i].sid = k
    THEN CHOOSE i \in 1..Len(ops) : ops[i].sid = k
    ELSE 0

IsProbe(o) == o.handler = "handleCheckConnection"

IsSend(o) == o.handler = "handleSendConfig"

Holding == {"Open", "Sending", "AwaitingAck", "Closing"}

\* the outcome of a probe or send that could not use its port
Failure(o) == IF IsProbe(o) THEN "Unreachable" ELSE "PortUnavailable"

\* a step of the manager on request i changes that request and the ports only
ManagerStep(i) ==
    /\ mounted = "App"
    /\ i \in 1..Len(ops)
    /\ IsProbe(ops[i]) \/ IsSend(ops[i])
    /\ UNCHANGED <<mounted, edits, config, status, isSubmitting, errors, rfVars, valVars,
                   codecVars, watchVars, selVars, device>>

\* probe and send: start opening the named port
OpenPort(i) ==
    /\ ManagerStep(i)
    /\ ops[i].sess = "Closed" /\ ops[i].outcome = "none"
    /\ ops' = [ops EXCEPT ![i].sess = "Opening", ![i].sid = FreeSid]
    /\ UNCHANGED owner

\* the port is opened: it was free, and this session owns it from now on
AcquireAnyway(i) ==
    /\ ManagerStep(i)
    /\ ops[i].sess = "Opening"
    /\ ops' = [ops EXCEPT ![i].sess = "Open"]
    /\ owner' = [owner EXCEPT ![ops[i].body.port] = TRUE]

Acquire(i) ==
    /\ ManagerStep(i)
    /\ ops[i].sess = "Opening"
    /\ ~owner[ops[i].body.port]
    /\ ops' = [ops EXCEPT ![i].sess = "Open"]
    /\ owner' = [owner EXCEPT ![ops[i].body.port] = TRUE]

\* the port cannot be opened, or is owned by another session: PortUnavailable
Refuse(i) ==
    /\ ManagerStep(i)
    /\ ops[i].sess = "Opening"
    /\ owner[ops[i].body.port] \/ device = "faulty"
    /\ ops' = [ops EXCEPT ![i].sess = "Closed", ![i].outcome = Failure(ops[i])]
    /\ UNCHANGED owner

\* probe: the port opened, the probe closes it at once
ProbeDone(i) ==
    /\ ManagerStep(i)
    /\ IsProbe(ops[i]) /\ ops[i].sess = "Open"
    /\ ops' = [ops EXCEPT ![i].sess = "Closing", ![i].outcome = "Reachable"]
    /\ UNCHANGED owner

\* send: the frame is written in one write
WriteUnopened(i) ==
    /\ ManagerStep(i)
    /\ IsSend(ops[i]) /\ ops[i].sess \in {"Closed", "Open"} /\ ops[i].outcome = "none"
    /\ ops' = [ops EXCEPT ![i].sess = "Sending"]
    /\ UNCHANGED owner

Write(i) ==
    /\ ManagerStep(i)
    /\ IsSend(ops[i]) /\ ops[i].sess = "Open" /\ ops[i].outcome = "none"
    /\ ops' = [ops EXCEPT ![i].sess = "Sending"]
    /\ UNCHANGED owner

\* send: the whole frame is out, the acknowledgement is awaited
Written(i) ==
    /\ ManagerStep(i)
    /\ ops[i].sess = "Sending"
    /\ ops' = [ops EXCEPT ![i].sess = "AwaitingAck"]
    /\ UNCHANGED owner

\* send: the device replies within the timeout
Reply(i) ==
    /\ ManagerStep(i)
    /\ ops[i].sess = "AwaitingAck"
    /\ device # "silent"
    /\ \E r \in Replies : ops' = [ops EXCEPT ![i].sess = "Open", ![i].outcome = r]
    /\ UNCHANGED owner

\* send: the timeout expires first, which forces the session to Closing
TimeoutNever(i) == FALSE /\ UNCHANGED vars

TimeoutExpiry(i) ==
    /\ ManagerStep(i)
    /\ ops[i].sess = "AwaitingAck"
    /\ ops' = [ops EXCEPT ![i].sess = "Closing", ![i].outcome = "Timeout"]
    /\ UNCHANGED owner

\* send: the reply is classified, the session is closed
Close(i) ==
    /\ ManagerStep(i)
    /\ IsSend(ops[i]) /\ ops[i].sess = "Open" /\ ops[i].outcome # "none"
    /\ ops' = [ops EXCEPT ![i].sess = "Closing"]
    /\ UNCHANGED owner

\* close(session): the port handle is released
Release(i) ==
    /\ ManagerStep(i)
    /\ ops[i].sess = "Closing"
    /\ ops' = [ops EXCEPT ![i].sess = "Closed"]
    /\ owner' = [owner EXCEPT ![ops[i].body.port] = FALSE]

\* a fatal I/O error (the device unplugged, a partial write): straight to Closed,
\* the port released; a failure unless the outcome was already known
FatalKeepsPort(i) ==
    /\ ManagerStep(i)
    /\ device = "faulty"
    /\ ops[i].sess \in Holding
    /\ ops' = [ops EXCEPT ![i].sess = "Closed",
                          ![i].outcome = IF @ = "none" THEN Failure(ops[i]) ELSE @]
    /\ UNCHANGED owner

Fatal(i) ==
    /\ ManagerStep(i)
    /\ device = "faulty"
    /\ ops[i].sess \in Holding
    /\ ops' = [ops EXCEPT ![i].sess = "Closed",
                          ![i].outcome = IF @ = "none" THEN Failure(ops[i]) ELSE @]
    /\ owner' = [owner EXCEPT ![ops[i].body.port] = FALSE]

\* the response the request handler makes of an outcome
HttpResult(outcome) == IF outcome \in {"Acknowledged", "Reachable"} THEN "ok" ELSE "notOk"

\* the probe or send has returned: its response reaches the form
Deliver(i) ==
    /\ mounted = "App"
    /\ i \in 1..Len(ops)
    /\ ops[i].sess = "Closed" /\ ops[i].outcome # "none"
    /\ Settle(i, HttpResult(ops[i].outcome), ops[i].outcome)
    /\ UNCHANGED <<owner, device, watchVars>>

\* everything the manager can do for the request at place i
Serve(i) ==
    \/ OpenPort(i)
    \/ Acquire(i)
    \/ Refuse(i)
    \/ ProbeDone(i)
    \/ Write(i)
    \/ Written(i)
    \/ Reply(i)
    \/ TimeoutExpiry(i)
    \/ Close(i)
    \/ Release(i)
    \/ Fatal(i)

Served == \E i \in Places : Serve(i)

Delivered == \E i \in Places : Deliver(i)

InitTransport ==
    /\ mounted = "App"
    /\ edits = 0
    /\ InitApp
    /\ InitRF
    /\ IdleValidation
    /\ IdleCodec
    /\ Unwatched
    /\ IdleSelector
    /\ owner = [p \in PortNames |-> FALSE]
    /\ device \in Devices

NextTransport ==
    \/ ChangePort
    \/ CheckConnection
    \/ SendToDevice
    \/ Served
    \/ Delivered

\* the form's port entry, its two buttons, and the manager behind them
SpecTransport == InitTransport /\ [][NextTransport]_vars

\* every request is taken up, every session is run by its own task, and the
\* response of a probe or send that has returned is delivered
FairTransport ==
    /\ SpecTransport
    /\ \A i \in Places : WF_vars(OpenPort(i))
    /\ \A k \in Sessions : WF_vars(Serve(Slot(k))) /\ WF_vars(Deliver(Slot(k)))

(***************************************************************************)
(* Validation alone: a field and a value are drawn, and the validation of  *)
(* either form is applied to the form's initial data with that value in    *)
(* that field.                                                             *)
(***************************************************************************)
\* the values validated: numbers and texts at and around the bounds of the field,
\* and texts that are no number or more than a number
ValidatedValues(f) ==
    LET min == ranges[f].min
        max == ranges[f].max
    IN {JsNum(x) : x \in {Pred(min), min, max, Succ(max)}}
       \cup {JsStr(NumToString(x)) : x \in {Pred(min), min, Succ(min), Pred(max), max, Succ(max)}}
       \cup {JsStr(NumToString(max) \o t) : t \in {<<".", "0">>, <<".", "5">>, <<"a">>}}
       \cup {JsStr(t) : t \in {<<>>, <<"4", "a">>, <<"-", "0">>, <<" ", "7">>, <<".">>}}

\* App.validateAll on the initial config with the value in the field
ApplyValidateAll ==
    /\ mounted = "validation"
    /\ vErrors = Pending
    /\ vErrors' = validateAll(SetKey(InitialConfig, vField, vValue))
    /\ UNCHANGED <<mounted, edits, vField, vValue, vRfErrors, appVars, rfVars, linkVars,
                   codecVars, watchVars, selVars>>

\* the newErrors of RFConfiguration.handleSubmit, whose fields hold strings, on a
\* form filled with its minima and the value in the field
ApplyRfNewErrors ==
    /\ mounted = "validation"
    /\ vRfErrors = Pending
    /\ vValue.t = "string"
    /\ vRfErrors' = rfNewErrors(SetKey([f \in NumericFieldSet |->
                                          JsStr(NumToString(validationRules[f].min))],
                                       vField, vValue))
    /\ UNCHANGED <<mounted, edits, vField, vValue, vErrors, appVars, rfVars, linkVars,
                   codecVars, watchVars, selVars>>

InitValidation ==
    /\ mounted = "validation"
    /\ edits = 0
    /\ InitApp
    /\ InitRF
    /\ IdleLink
    /\ IdleCodec
    /\ Unwatched
    /\ IdleSelector
    /\ vField \in NumericFieldSet
    /\ vValue \in ValidatedValues(vField)
    /\ vErrors = Pending
    /\ vRfErrors = Pending

NextValidation == ApplyValidateAll \/ ApplyRfNewErrors

SpecValidation == InitValidation /\ [][NextValidation]_vars

(***************************************************************************)
(* The domains of the numeric fields of a configuration record, and the    *)
(* number a field's value denotes: the value itself, or the number a       *)
(* string spells from its first to its last character.                     *)
(***************************************************************************)
Domain ==
    [fc  |-> [lo |-> FromInt(1000000), hi |-> Num(60000, 0)],
     fs  |-> [lo |-> FromInt(1000000), hi |-> FromInt(20000000)],
     rfg |-> [lo |-> FromInt(0), hi |-> FromInt(47)],
     ifg |-> [lo |-> FromInt(0), hi |-> FromInt(40)],
     bbg |-> [lo |-> FromInt(0), hi |-> FromInt(62)]]

Denoted(v) ==
    IF v.t = "number" THEN v.n
    ELSE IF IsValidFloat(v.s) THEN ParseFloatStr(v.s) ELSE NaN

InDomain(f, v) ==
    LET x == Denoted(v)
    IN ~x.nan /\ ~IsNegative(x) /\ ~IntLess(x, Domain[f].lo)
       /\ (IntLess(x, Domain[f].hi) \/ (IntEq(x, Domain[f].hi) /\ ~x.frac))

(***************************************************************************)
(* The Frame Codec: validate, encode and decode of a ConfigurationRecord.  *)
(* The frame is 1 version byte, 1 byte each for device_mode,               *)
(* streaming_protocol and modulation, 8 bytes carrier_frequency_hz, 4      *)
(* bytes sampling_frequency_hz, 1 byte each gain, all big-endian, and a    *)
(* trailing CRC-16/CCITT over every preceding byte.                        *)
(***************************************************************************)
DeviceModeCodes == <<"Receive", "Transmit">>

ProtocolCodes == <<"UART", "I2C", "SPI", "File">>

ModulationCodes == <<"BPSK", "QPSK", "FSK">>

\* the byte of an enumerated value, and the value of a byte
Code(codes, v) == (CHOOSE i \in 1..Len(codes) : codes[i] = v) - 1

FrameVersion == 1

PayloadLength == 1 + 3 + 8 + 4 + 3

ChecksumLength == 2

FrameLength == PayloadLength + ChecksumLength

\* the fields of a record in the order of their check and of the layout, and
\* the domain of each numeric one
CodecNumericFields ==
    <<"carrier_frequency_hz", "sampling_frequency_hz", "rf_gain_db", "if_gain_db",
      "baseband_gain_db">>

FieldDomain ==
    [carrier_frequency_hz |-> Domain.fc, sampling_frequency_hz |-> Domain.fs,
     rf_gain_db |-> Domain.rfg, if_gain_db |-> Domain.ifg, baseband_gain_db |-> Domain.bbg]

FieldWidth ==
    [carrier_frequency_hz |-> 8, sampling_frequency_hz |-> 4,
     rf_gain_db |-> 1, if_gain_db |-> 1, baseband_gain_db |-> 1]

\* source_file_path is optional: no path, or one path
NoPath == {}

Ok == [kind |-> "Ok"]

ValidationError(field, reason) ==
    [kind |-> "ValidationError", field |-> field, reason |-> reason]

FrameError(what) == [kind |-> "FrameError", error |-> what]

OutOfDomain(r, f) ==
    IntLess(r[f], FieldDomain[f].lo) \/ IntLess(FieldDomain[f].hi, r[f])

\* validate(record): the first violation in the order of the fields
Validate(r) ==
    LET bad == {i \in 1..Len(CodecNumericFields) : OutOfDomain(r, CodecNumericFields[i])}
        first == CHOOSE i \in bad : \A j \in bad : i <= j
    IN IF bad # {}
       THEN ValidationError(CodecNumericFields[first], FieldDomain[CodecNumericFields[first]])
       ELSE IF r.streaming_protocol = "File" /\ (r.source_file_path \in {NoPath, {""}})
       THEN ValidationError("source_file_path", "required")
       ELSE Ok

\* x \div 256 and x % 256 of a number kept in two limbs
Quot256(x) == Num(x.hi \div 256, ((x.hi % 256) * Base + x.lo) \div 256)

Rem256(x) == ((x.hi % 256) * Base + x.lo) % 256

\* the low n bytes of x, the most significant first (big-endian)
RECURSIVE ToBytesLittleEndian(_, _)
ToBytesLittleEndian(x, n) ==
    IF n = 0 THEN <<>> ELSE <<Rem256(x)>> \o ToBytesLittleEndian(Quot256(x), n - 1)

RECURSIVE ToBytes(_, _)
ToBytes(x, n) == IF n = 0 THEN <<>> ELSE Append(ToBytes(Quot256(x), n - 1), Rem256(x))

\* the number that bytes spell, the most significant first
RECURSIVE FromBytes(_)
FromBytes(bytes) ==
    IF bytes = <<>> THEN Num(0, 0)
    ELSE LET x == FromBytes(SubSeq(bytes, 1, Len(bytes) - 1))
             t == x.lo * 256 + bytes[Len(bytes)]
         IN Num(x.hi * 256 + t \div Base, t % Base)

\* bit n of x, and x with its bit n inverted
Bit(x, n) == (x \div 2 ^ n) % 2

Invert(x, n) == IF Bit(x, n) = 1 THEN x - 2 ^ n ELSE x + 2 ^ n

\* CRC-16/CCITT: polynomial x^16 + x^12 + x^5 + 1, initial value all ones, the
\* bits of each byte taken from the most significant, no final inversion
AllOnes == 2 ^ 16 - 1

XorPolynomial(x) == Invert(Invert(Invert(x, 12), 5), 0)

\* the register crc after one more bit of the message
CrcBit(crc, bit) ==
    IF Bit(crc, 15) # bit THEN XorPolynomial((crc * 2) % 2 ^ 16) ELSE (crc * 2) % 2 ^ 16

\* the register after the low n bits of a byte, the most significant first
CrcByte[crc \in Nat, byte \in Nat, n \in Nat] ==
    IF n = 0 THEN crc ELSE CrcByte[CrcBit(crc, Bit(byte, n - 1)), byte, n - 1]

\* the register after the bytes from the i-th on
Crc16[i \in Nat, crc \in Nat, bytes \in Seq(Nat)] ==
    IF i > Len(bytes) THEN crc ELSE Crc16[i + 1, CrcByte[crc, bytes[i], 8], bytes]

Checksum(bytes) == Crc16[1, AllOnes, bytes]

\* the payload of a record, field after field
Payload(r) ==
    <<FrameVersion,
      Code(DeviceModeCodes, r.device_mode),
      Code(ProtocolCodes, r.streaming_protocol),
      Code(ModulationCodes, r.modulation)>>
    \o ToBytes(r.carrier_frequency_hz, FieldWidth.carrier_frequency_hz)
    \o ToBytes(r.sampling_frequency_hz, FieldWidth.sampling_frequency_hz)
    \o ToBytes(r.rf_gain_db, FieldWidth.rf_gain_db)
    \o ToBytes(r.if_gain_db, FieldWidth.if_gain_db)
    \o ToBytes(r.baseband_gain_db, FieldWidth.baseband_gain_db)

ConfigFrame(payload) ==
    [kind |-> "ConfigFrame",
     bytes |-> payload \o ToBytes(FromInt(Checksum(payload)), ChecksumLength),
     checksum |-> Checksum(payload)]

\* encode(record): validate first, then the layout and the checksum
Encode(r) == IF Validate(r) # Ok THEN Validate(r) ELSE ConfigFrame(Payload(r))

\* the record that the fields of a frame spell; the frame has no place for
\* source_file_path
DecodeFields(bytes) ==
    IF \/ bytes[2] >= Len(DeviceModeCodes)
       \/ bytes[3] >= Len(ProtocolCodes)
       \/ bytes[4] >= Len(ModulationCodes)
    THEN FrameError("Malformed")
    ELSE [kind |-> "ConfigurationRecord",
          device_mode |-> DeviceModeCodes[bytes[2] + 1],
          streaming_protocol |-> ProtocolCodes[bytes[3] + 1],
          modulation |-> ModulationCodes[bytes[4] + 1],
          carrier_frequency_hz |-> FromBytes(SubSeq(bytes, 5, 12)),
          sampling_frequency_hz |-> FromBytes(SubSeq(bytes, 13, 16)),
          rf_gain_db |-> FromBytes(SubSeq(bytes, 17, 17)),
          if_gain_db |-> FromBytes(SubSeq(bytes, 18, 18)),
          baseband_gain_db |-> FromBytes(SubSeq(bytes, 19, 19)),
          source_file_path |-> NoPath]

\* the checksum field of a frame
StoredChecksum(bytes) == bytes[PayloadLength + 1] * 256 + bytes[FrameLength]

\* decode(bytes): the length, the checksum over all that precedes it, the
\* version, and only then the fields
DecodeVersionFirst(bytes) ==
    IF Len(bytes) # FrameLength THEN FrameError("Malformed")
    ELSE IF bytes[1] # FrameVersion THEN FrameError("UnsupportedVersion")
    ELSE IF Checksum(SubSeq(bytes, 1, PayloadLength)) # StoredChecksum(bytes)
    THEN FrameError("ChecksumInvalid")
    ELSE DecodeFields(bytes)

Decode(bytes) ==
    IF Len(bytes) # FrameLength THEN FrameError("Malformed")
    ELSE IF Checksum(SubSeq(bytes, 1, PayloadLength)) # StoredChecksum(bytes)
    THEN FrameError("ChecksumInvalid")
    ELSE IF bytes[1] # FrameVersion THEN FrameError("UnsupportedVersion")
    ELSE DecodeFields(bytes)

\* the bytes with bit n inverted, the bits counted from the last bit of the
\* first byte
FlipBit(bytes, n) ==
    [bytes EXCEPT ![n \div 8 + 1] = Invert(@, n % 8)]

\* numeric values at the bounds of their domains, inside them, and one off them
SampleNumbers ==
    {<<FromInt(1000000), FromInt(1000000), 0, 0, 0>>,
     <<Num(60000, 0), FromInt(20000000), 47, 40, 62>>,
     <<FromInt(915000000), FromInt(2000000), 14, 20, 30>>,
     <<Num(24000, 1), FromInt(10000001), 46, 1, 33>>,
     <<FromInt(999999), FromInt(1000000), 0, 0, 0>>,
     <<Num(60000, 1), FromInt(20000000), 47, 40, 62>>,
     <<FromInt(915000000), FromInt(20000001), 48, 20, 30>>,
     <<FromInt(915000000), FromInt(2000000), 14, 41, 63>>}

SamplePaths(protocol) == IF protocol = "File" THEN {NoPath, {""}, {"capture.iq"}} ELSE {NoPath}

SampleRecords ==
    UNION {{[kind |-> "ConfigurationRecord",
             device_mode |-> m,
             streaming_protocol |-> p,
             modulation |-> d,
             carrier_frequency_hz |-> n[1],
             sampling_frequency_hz |-> n[2],
             rf_gain_db |-> FromInt(n[3]),
             if_gain_db |-> FromInt(n[4]),
             baseband_gain_db |-> FromInt(n[5]),
             source_file_path |-> path] :
                m \in {"Receive", "Transmit"}, d \in {"BPSK", "QPSK", "FSK"},
                n \in SampleNumbers, path \in SamplePaths(p)} :
           p \in {"UART", "I2C", "SPI", "File"}}

CodecStep ==
    /\ mounted = "codec"
    /\ UNCHANGED <<mounted, edits, appVars, rfVars, valVars, linkVars, watchVars, selVars, record>>

\* encode is applied to the record
Encoded ==
    /\ CodecStep
    /\ frame = Nothing
    /\ frame' = Encode(record)
    /\ UNCHANGED <<damage, decoded>>

\* one bit of the frame is inverted on its way
BitFlipped ==
    /\ CodecStep
    /\ frame.kind = "ConfigFrame" /\ damage = Intact /\ decoded = Nothing
    /\ \E n \in 0..8 * FrameLength - 1 :
        /\ frame' = [frame EXCEPT !.bytes = FlipBit(@, n)]
        /\ damage' = [kind |-> "flipped", at |-> n]
    /\ UNCHANGED decoded

\* the frame loses its last byte on its way
Truncated ==
    /\ CodecStep
    /\ frame.kind = "ConfigFrame" /\ damage = Intact /\ decoded = Nothing
    /\ frame' = [frame EXCEPT !.bytes = SubSeq(@, 1, Len(@) - 1)]
    /\ damage' = [kind |-> "truncated", at |-> FrameLength]
    /\ UNCHANGED decoded

\* decode is applied to the bytes of the frame
Decoded ==
    /\ CodecStep
    /\ frame.kind = "ConfigFrame" /\ decoded = Nothing
    /\ decoded' = Decode(frame.bytes)
    /\ UNCHANGED <<frame, damage>>

InitCodec ==
    /\ mounted = "codec"
    /\ edits = 0
    /\ InitApp
    /\ InitRF
    /\ IdleValidation
    /\ IdleLink
    /\ Unwatched
    /\ IdleSelector
    /\ record \in SampleRecords
    /\ frame = Nothing
    /\ damage = Intact
    /\ decoded = Nothing

NextCodec == Encoded \/ BitFlipped \/ Truncated \/ Decoded

SpecCodec == InitCodec /\ [][NextCodec]_vars

(***************************************************************************)
(* C4: decode(encode(r)) equals r in every field, for every valid record r.*)
(***************************************************************************)
RoundTrip == frame.kind = "ConfigFrame" /\ damage = Intact /\ decoded # Nothing

FrameFields ==
    {"device_mode", "streaming_protocol", "modulation", "carrier_frequency_hz",
     "sampling_frequency_hz", "rf_gain_db", "if_gain_db", "baseband_gain_db"}

C4_Witness ==
    /\ RoundTrip
    /\ record.carrier_frequency_hz = Num(60000, 0)
    /\ record.streaming_protocol = "UART"
    /\ decoded = record

C5_MismatchIsChecksumInvalid ==
    decoded # Nothing =>
        /\ damage.kind = "flipped" => decoded = FrameError("ChecksumInvalid")
        /\ (/\ Len(frame.bytes) = FrameLength
            /\ Checksum(SubSeq(frame.bytes, 1, PayloadLength))
                  # FromBytes(SubSeq(frame.bytes, PayloadLength + 1, FrameLength)).lo)
               => decoded = FrameError("ChecksumInvalid")

\* the lowest bit of the version byte inverted: ChecksumInvalid, not UnsupportedVersion
C5_Witness ==
    /\ damage = [kind |-> "flipped", at |-> 0]
    /\ frame.bytes[1] # FrameVersion
    /\ decoded = FrameError("ChecksumInvalid")

\* a bit of the stored checksum inverted
C5_WitnessChecksumBit ==
    /\ damage = [kind |-> "flipped", at |-> 8 * FrameLength - 1]
    /\ decoded = FrameError("ChecksumInvalid")

(***************************************************************************)
(* C1: validation accepts a number exactly when it lies in the domain of   *)
(* the field, both bounds included; otherwise an error is recorded against *)
(* that field.                                                             *)
(***************************************************************************)
C1_AcceptsExactlyTheDomain ==
    ~Denoted(vValue).nan =>
        /\ vErrors # Pending => (vField \notin DOMAIN vErrors <=> InDomain(vField, vValue))
        /\ vRfErrors # Pending => (vField \notin DOMAIN vRfErrors <=> InDomain(vField, vValue))

\* 6000000001 in the carrier frequency: both forms record an error against fc
C1_Witness ==
    /\ vField = "fc"
    /\ vValue = JsStr(<<"6", "0", "0", "0", "0", "0", "0", "0", "0", "1">>)
    /\ vErrors # Pending /\ "fc" \in DOMAIN vErrors
    /\ vRfErrors # Pending /\ "fc" \in DOMAIN vRfErrors

\* 6000000000 in the carrier frequency is accepted by both forms
C1_WitnessAccepts ==
    /\ vField = "fc"
    /\ vValue = JsStr(<<"6", "0", "0", "0", "0", "0", "0", "0", "0", "0">>)
    /\ vErrors # Pending /\ "fc" \notin DOMAIN vErrors
    /\ vRfErrors # Pending /\ "fc" \notin DOMAIN vRfErrors

(***************************************************************************)
(* C2: a configuration is handed on (a POST /api/config request is in      *)
(* flight, or onSubmit has been called) only with all five numeric fields  *)
(* of the submitted configuration inside their domains.                    *)
(***************************************************************************)
C2_SubmittedInDomain ==
    /\ \A i \in SaveRequests : \A f \in NumericFieldSet : InDomain(f, ops[i].body[f])
    /\ DOMAIN onSubmitArg # {} => \A f \in NumericFieldSet : InDomain(f, onSubmitArg[f])

\* a save request in flight that carries an edited carrier frequency
C2_Witness ==
    \E i \in SaveRequests : ops[i].body.fc = JsStr(NumToString(ranges.fc.max))

\* onSubmit called with the values typed into the RFConfiguration form
C2_WitnessRF == DOMAIN onSubmitArg # {} /\ onSubmitArg.rfg = JsNum(FromInt(47))

(***************************************************************************)
(* C3: no save request is issued for a record whose streaming protocol is  *)
(* File and whose file path is empty.                                      *)
(***************************************************************************)
C3_NoSaveForFileWithoutPath ==
    \A i \in SaveRequests :
        ~(ops[i].body.streamingProtocol = "file" /\ ops[i].body.filePath = "")

(***************************************************************************)
(* C6: two requests against the same port name never both hold an open     *)
(* session on it at the same time.                                         *)
(***************************************************************************)
SamePort(i, j) == i # j /\ ops[i].body.port = ops[j].body.port

C6_OneSessionPerPort ==
    \A i, j \in 1..Len(ops) :
        SamePort(i, j) => ~(ops[i].sess \in Holding /\ ops[j].sess \in Holding)

\* two sends against one port: one awaits its acknowledgement, the other was
\* refused with PortUnavailable
C6_Witness ==
    \E i, j \in 1..Len(ops) :
        /\ SamePort(i, j) /\ IsSend(ops[i]) /\ IsSend(ops[j])
        /\ ops[i].sess = "AwaitingAck"
        /\ ops[j].sess = "Closed" /\ ops[j].outcome = "PortUnavailable"

(***************************************************************************)
(* C7: a send to a device that never replies does not stay in flight for   *)
(* ever, and once it awaits the acknowledgement it can only end with the   *)
(* outcome Timeout, which the form shows as an error.                      *)
(***************************************************************************)
\* the send of session k awaits the reply of a silent device, or has timed out
\* and not yet returned to the form
TimingOut(k) ==
    /\ device = "silent"
    /\ Slot(k) # 0
    /\ IsSend(ops[Slot(k)])
    /\ ops[Slot(k)].sess = "AwaitingAck" \/ ops[Slot(k)].outcome = "Timeout"

TimeoutShown(k) == Slot(k) = 0 /\ status = Status("error", "Timeout")

C7_SilentPeerTimesOut ==
    /\ \A k \in Sessions : TimingOut(k) ~> TimeoutShown(k)
    /\ [][\A k \in Sessions : TimingOut(k) => (TimingOut(k)' \/ TimeoutShown(k)')]_vars

\* the form shows the Timeout of a send to a silent device
C7_Witness ==
    /\ device = "silent"
    /\ status = Status("error", "Timeout")

(***************************************************************************)
(* C8: a port is held only while a probe or send is using it: once the     *)
(* operation has returned, whatever its outcome, its port is free.         *)
(***************************************************************************)
C8_PortReleased ==
    \A p \in PortNames :
        owner[p] => \E i \in 1..Len(ops) : ops[i].body.port = p /\ ops[i].sess \in Holding

\* returned operations of every kind of exit, each with its port free again
Returned(outcome) ==
    \E i \in 1..Len(ops) :
        /\ ops[i].sess = "Closed" /\ ops[i].outcome = outcome
        /\ ~owner[ops[i].body.port]

C8_Witness == device = "silent" /\ Returned("Timeout")

C8_WitnessFailure == device = "faulty" /\ Returned("PortUnavailable")

C8_WitnessAcknowledged == Returned("Acknowledged") /\ Returned("Reachable")

(***************************************************************************)
(* C9: a session moves only along Closed -> Opening -> Open -> Sending ->   *)
(* AwaitingAck -> Open -> Closing -> Closed, or from any state to Closed.   *)
(***************************************************************************)
Chain ==
    {<<"Closed", "Opening">>, <<"Opening", "Open">>, <<"Open", "Sending">>,
     <<"Sending", "AwaitingAck">>, <<"AwaitingAck", "Open">>, <<"Open", "Closing">>,
     <<"Closing", "Closed">>}

\* every session stays, moves along T, or goes to Closed; a request that starts
\* has a Closed session, and only a request with a Closed session ends
SessionsMove(T) ==
    \/ /\ Len(ops') = Len(ops) + 1
       /\ SubSeq(ops', 1, Len(ops)) = ops
       /\ ops'[Len(ops')].sess = "Closed"
    \/ /\ Len(ops') = Len(ops) - 1
       /\ \E j \in 1..Len(ops) : ops[j].sess = "Closed" /\ ops' = RemoveAt(ops, j)
    \/ /\ Len(ops') = Len(ops)
       /\ \A i \in 1..Len(ops) :
            \/ ops'[i].sess = ops[i].sess
            \/ <<ops[i].sess, ops'[i].sess>> \in T
            \/ ops'[i].sess = "Closed"

RecordFields ==
    {"deviceMode", "streamingProtocol", "modulation", "fc", "fs", "rfg", "ifg", "bbg"}

Carries(body, cfg) ==
    /\ "port" \in DOMAIN body
    /\ \A f \in RecordFields : IF f \in DOMAIN body THEN body[f] = cfg[f] ELSE FALSE

C10_SendCarriesRecord ==
    [][(Len(ops') = Len(ops) + 1 /\ ops'[Len(ops')].handler = "handleSendConfig")
         => Carries(ops'[Len(ops')].body, config)]_vars

(***************************************************************************)
(* C11: every request a save, a connection check or a send has issued      *)
(* ends in exactly one final status of type success or error: success      *)
(* when the response is ok and its body parses, error when the response is *)
(* not ok, when its body does not parse, and when fetch rejects.           *)
(***************************************************************************)
C11_OneTypedResult ==
    [][Len(ops') < Len(ops) =>
          /\ Len(ops') = Len(ops) - 1
          /\ status'.type = IF nextResult = "ok" THEN "success" ELSE "error"]_vars

\* a request has ended without a readable response, and the status is an error
C11_Witness ==
    /\ nextResult # "none"
    /\ ops = <<>>
    /\ status = Status("error", "Network error: ")

(***************************************************************************)
(* C12: no automatic retry.  A step issues at most one request, and only   *)
(* as the start of a save, a connection check or a send (it sets that      *)
(* operation's starting status and keeps the requests already in flight);  *)
(* a step in which a request ends, whatever the response, takes that       *)
(* request away and issues none.                                           *)
(***************************************************************************)
StartingStatus(handler) ==
    CASE handler = "handleSubmit" -> NoStatus
      [] handler = "handleCheckConnection" -> Status("info", "Checking connection...")
      [] handler = "handleSendConfig" -> Status("info", "Sending configuration...")

C12_NoRetry ==
    [][/\ Len(ops') > Len(ops) =>
             /\ ops = SubSeq(ops', 1, Len(ops))
             /\ Len(ops') = Len(ops) + 1
             /\ status' = StartingStatus(ops'[Len(ops')].handler)
       /\ Len(ops') = Len(ops) => ops' = ops
       /\ Len(ops') < Len(ops) => \E i \in 1..Len(ops) : ops' = RemoveAt(ops, i)]_vars

\* a response that was not ok has ended its request, and none is in flight
C12_Witness ==
    /\ nextResult # "none"
    /\ ops = <<>>
    /\ status = Status("error", SomeMessage)

(***************************************************************************)
(* C13: a connection check is read-only.  The step that starts one issues  *)
(* a single request to /api/connection whose body is the port name alone,  *)
(* and changes the status only: config, errors and isSubmitting stay as    *)
(* they are.  However many checks are made, none of them is a request to   *)
(* /api/config or /api/send, and the session of none of them writes a      *)
(* frame.                                                                  *)
(***************************************************************************)
ChecksInFlight == {i \in 1..Len(ops) : ops[i].handler = "handleCheckConnection"}

ChecksOnly ==
    \A i \in ChecksInFlight :
        /\ ops[i].url = "/api/connection"
        /\ DOMAIN ops[i].body = {"port"}
        /\ ops[i].sess \notin {"Sending", "AwaitingAck"}
        /\ ops[i].outcome \in {"none", "Reachable", "Unreachable", "PortUnavailable"}

C13_CheckIsReadOnly ==
    [][/\ ChecksOnly'
       /\ (Len(ops') > Len(ops) /\ ops'[Len(ops')].handler = "handleCheckConnection") =>
              /\ ops' = Append(ops, Request("handleCheckConnection", "/api/connection",
                                            [port |-> config.port]))
              /\ config' = config
              /\ errors' = errors
              /\ isSubmitting' = isSubmitting]_vars

\* a second check is in flight while the first holds the port open
C13_Witness ==
    /\ Cardinality(ChecksInFlight) = 2
    /\ \E i \in ChecksInFlight : ops[i].sess = "Open"

(***************************************************************************)
(* C14: validation returns the first violation encountered, a single       *)
(* error: the errors a save attempt records never name more than one       *)
(* field.                                                                  *)
(***************************************************************************)
C14_FirstViolationOnly == Cardinality(DOMAIN errors) <= 1

(***************************************************************************)
(* C15: validation has no side effect on the record.  In the step of a     *)
(* save attempt that fails validation (the only step that puts entries     *)
(* into errors) every field of config keeps its value, no request is       *)
(* issued and isSubmitting stays false; errors and the status change.      *)
(***************************************************************************)
C15_FailedSaveKeepsRecord ==
    [][(DOMAIN errors = {} /\ DOMAIN errors' # {}) =>
          /\ config' = config
          /\ ops' = ops
          /\ ~isSubmitting /\ ~isSubmitting'
          /\ status' = Status("error", "Please fix validation errors before saving")]_vars

\* a save attempt has failed on fc, which still holds the text typed
C15_Witness ==
    /\ "fc" \in DOMAIN errors
    /\ status = Status("error", "Please fix validation errors before saving")
    /\ config.fc = JsStr(NumToString(Succ(ranges.fc.max)))

(***************************************************************************)
(* C16: a connection check or a send is attempted only with a port name.   *)
(* Called while config.port is empty (or absent), handleCheckConnection    *)
(* and handleSendConfig issue no request and change nothing but the        *)
(* status, which becomes an error asking for the port; every request of    *)
(* theirs in flight carries a port name.                                   *)
(***************************************************************************)
AsksForPort ==
    {Status("error", "Please enter a Serial Port first"), Status("error", "Please enter a Serial Port")}

PortsNamed ==
    \A i \in 1..Len(ops) :
        ops[i].handler \in {"handleCheckConnection", "handleSendConfig"} =>
            ops[i].body.port \in PortNames

C16_NoRequestWithoutPort ==
    [][/\ PortsNamed'
       /\ NoPort(config) =>
              /\ Len(ops') <= Len(ops)
                    \/ ops'[Len(ops')].handler \notin {"handleCheckConnection", "handleSendConfig"}
              /\ (status' \in AsksForPort /\ status' # status) =>
                    /\ ops' = ops
                    /\ config' = config
                    /\ errors' = errors
                    /\ isSubmitting' = isSubmitting]_vars

\* without a port, a check or a send has been refused while a save is in flight
C16_Witness ==
    /\ NoPort(config)
    /\ status \in AsksForPort
    /\ isSubmitting

(***************************************************************************)
(* C17: in StreamingProtocolSelector a click on the File card calls        *)
(* onSelect not at all; a click on any other card calls onSelect once,     *)
(* with that protocol; and every onSelect call for 'file' carries the file *)
(* chosen in the file input (of handleFileChange), never no file.          *)
(***************************************************************************)
FileCalls == {i \in 1..Len(onSelectCalls) : onSelectCalls[i].protocol = "file"}

C17_FileOnlyWithFile ==
    [][/\ \A i \in FileCalls' : onSelectCalls'[i].file # NoFile
       /\ (edits' # edits /\ lastEvent' = "file") => onSelectCalls' = onSelectCalls
       /\ (edits' # edits /\ lastEvent' \in Protocols \ {"file"}) =>
              onSelectCalls' = Append(onSelectCalls, [protocol |-> lastEvent', file |-> NoFile])
       /\ (edits' # edits /\ lastEvent' = "input") =>
              \/ onSelectCalls' = onSelectCalls
              \/ /\ onSelectCalls' = Append(onSelectCalls, [protocol |-> "file",
                                                              file |-> selectedFile'])
                 /\ selectedFile' # NoFile]_vars

\* the File card was clicked last, after a file had been reported to the parent
C17_Witness ==
    /\ lastEvent = "file"
    /\ FileCalls # {}

(***************************************************************************)
(* C18: in every state of the App form, a numeric field with an entry in   *)
(* errors holds a value outside its domain or no number; and a change of a *)
(* field takes that field's entry out of errors and leaves every other     *)
(* entry as it is.                                                         *)
(***************************************************************************)
ErrorsAreViolations ==
    \A f \in DOMAIN errors : f \in NumericFieldSet /\ ~InDomain(f, config[f])

\* the fields whose value differs between the two states of a step
Edited == {f \in DOMAIN config' : f \notin DOMAIN config \/ config'[f] # config[f]}

C18_ErrorsFollowValues ==
    /\ []ErrorsAreViolations
    /\ [][edits' # edits =>
              /\ Cardinality(Edited) = 1
              /\ DOMAIN errors' = DOMAIN errors \ Edited
              /\ \A g \in DOMAIN errors' : errors'[g] = errors[g]]_vars

\* fc was edited after a failed save, to a text that is no number: it has no
\* entry, and the entry of fs is still there
C18_Witness ==
    /\ DOMAIN errors = {"fs"}
    /\ config.fc = JsStr(<<>>)
    /\ edits > 0

(***************************************************************************)
(* C19: at most one save request is in flight, and isSubmitting is true    *)
(* exactly while one is: it becomes true in the step that issues the       *)
(* request, which is taken only while isSubmitting is false and errors is  *)
(* empty, and false again in the step that ends it, whichever way the      *)
(* response ends.                                                          *)
(***************************************************************************)
C19_OneSaveInFlight ==
    /\ [](Cardinality(SaveRequests) <= 1 /\ (isSubmitting <=> SaveRequests # {}))
    /\ [][(Len(ops') > Len(ops) /\ ops'[Len(ops')].handler = "handleSubmit") =>
              (~isSubmitting /\ DOMAIN errors = {} /\ isSubmitting')]_vars

\* no port was ever entered, so only a save was possible: its response could
\* not be read, and isSubmitting is false again
C19_Witness ==
    /\ edits = 0
    /\ ops = <<>>
    /\ ~isSubmitting
    /\ status = Status("error", "Network error: ")

(***************************************************************************)
(* C20: when operations overlap, a late response of an earlier operation   *)
(* never replaces the status of a later one: the response of a request     *)
(* that the response of a request started after it has overtaken leaves    *)
(* the status as it is.                                                    *)
(***************************************************************************)
C20_LastStartedWins ==
    [][overtaken' < overtaken => status' = status]_vars

(***************************************************************************)
(* C21: the File protocol is reachable in StreamingProtocolSelector.  With *)
(* the parent changing selectedProtocol only on onSelect calls, the user   *)
(* clicks the File card and then chooses a file: so once the File card has *)
(* been clicked the file input is on screen, for the file to be chosen in. *)
(***************************************************************************)
C21_FileCardShowsFileInput == lastEvent = "file" => FileInputRendered

\* what holds instead: a selector that does not show the file input never
\* comes to show it, and so never calls onSelect for 'file'
C21_FileInputNeverAppears ==
    [][~FileInputRendered => (~FileInputRendered' /\ FileCalls' = FileCalls)]_vars

(***************************************************************************)
(* C22: Reset to Defaults (the one step that changes config, or empties    *)
(* errors, without a change event) sets deviceMode, streamingProtocol,     *)
(* modulation, fc, fs, rfg, ifg, bbg and filePath to their initial values  *)
(* and empties errors, leaves status, isSubmitting and the requests in     *)
(* flight as they are, and leaves config without a port; and while config  *)
(* has no port, no connection check and no send is started.                *)
(***************************************************************************)
ResetFields ==
    {"deviceMode", "streamingProtocol", "modulation", "fc", "fs", "rfg", "ifg", "bbg",
     "filePath"}

C22_ResetRestoresAndDropsPort ==
    [][/\ (edits' = edits /\ (config' # config
                               \/ (DOMAIN errors # {} /\ DOMAIN errors' = {}))) =>
              /\ DOMAIN config' = ResetFields
              /\ \A f \in ResetFields : config'[f] = InitialConfig[f]
              /\ errors' = EmptyObject
              /\ status' = status
              /\ isSubmitting' = isSubmitting
              /\ ops' = ops
       /\ (NoPort(config) /\ Len(ops') > Len(ops)) =>
              ops'[Len(ops')].handler = "handleSubmit"]_vars

\* the form was reset while a connection check was in flight: config has no
\* port, and the status of the check is still shown
C22_Witness ==
    /\ DOMAIN config = ResetFields
    /\ status = Status("info", "Checking connection...")
    /\ ChecksInFlight # {}

(***************************************************************************)
(* C23: in the App form only a save attempt adds an entry to errors: the   *)
(* step that adds one is no change and no blur, starts from empty errors   *)
(* and shows the validation status; and a blur of a numeric input (an      *)
(* event that leaves config as it is) leaves errors, status, isSubmitting  *)
(* and the requests in flight as they are.                                 *)
(***************************************************************************)
C23_OnlySaveAddsErrors ==
    [][/\ (DOMAIN errors' \ DOMAIN errors # {}) =>
              /\ edits' = edits
              /\ DOMAIN errors = {}
              /\ status' = Status("error", "Please fix validation errors before saving")
       /\ (edits' # edits /\ config' = config) =>
              /\ errors' = errors
              /\ status' = status
              /\ isSubmitting' = isSubmitting
              /\ ops' = ops]_vars

\* after changes and blurs and no save attempt, fc holds a value above its
\* maximum and errors has no entry
C23_Witness ==
    /\ edits = MaxEdits
    /\ config.fc = JsStr(NumToString(Succ(ranges.fc.max)))
    /\ status = NoStatus
    /\ DOMAIN errors = {}

====
